---- MODULE Spec2Model ----
(***************************************************************************)
(* A model of the GM8 executable reader (src/src/game/parser.rs) and of    *)
(* the project-file sound record (src/src/asset/sound.rs).                 *)
(*                                                                         *)
(* Buffers are sequences of bytes.  A cursor position is the byte offset   *)
(* the Rust code holds; a buffer is paired with the offset `base` of its   *)
(* first modelled byte, so that the executable, whose first modelled byte  *)
(* is the one at GM80_MAGIC_POS, keeps the absolute offsets of the code.   *)
(* A u32 is an integer below 2^31 wherever the code only compares, adds or *)
(* seeks with it, and its four little-endian bytes wherever the code       *)
(* multiplies it (the product needs all 32 bits).                          *)
(***************************************************************************)
EXTENDS Integers, Sequences, FiniteSets, TLC

VARIABLES dec, snd, spr, run, rt

vars == <<dec, snd, spr, run, rt>>

\* ------------------------------------------------------------------------
\* Program constants
\* ------------------------------------------------------------------------

GM80_MAGIC_POS == 2000000

GM80_MAGIC == 1234321

TABLE_SIZE == 256

\* ------------------------------------------------------------------------
\* Bounds of the model
\* ------------------------------------------------------------------------

\* Longest asset-data region the decryption specification declares.
MaxRegion == 4

\* ------------------------------------------------------------------------
\* Bytes and cursors
\* ------------------------------------------------------------------------

Byte == 0..255

\* The little-endian bytes of a u32 below 2^31.
LE32(n) ==
  <<n % 256, (n \div 256) % 256, (n \div 65536) % 256, (n \div 16777216) % 256>>

\* n bytes of value b.
RECURSIVE Fill(_, _)
Fill(n, b) == IF n <= 0 THEN <<>> ELSE <<b>> \o Fill(n - 1, b)

\* Vec::len of a buffer whose first modelled byte is at offset base.
BufLen(buf, base) == base + Len(buf)

\* buf[p]
At(buf, base, p) == buf[p - base + 1]

\* buf[p] = v
Put(buf, base, p, v) == [buf EXCEPT ![p - base + 1] = v]

\* io::Cursor: how many bytes a read of n bytes at position p obtains.
Avail(buf, base, p, n) ==
  IF p >= BufLen(buf, base) THEN 0
  ELSE IF p + n <= BufLen(buf, base) THEN n ELSE BufLen(buf, base) - p

\* buf[p .. p+n)
Slice(buf, base, p, n) == SubSeq(buf, p - base + 1, p - base + n)

\* byteorder read_u32::<LE>: read_exact of 4 bytes, then the value.
U32Ok(buf, base, p) == Avail(buf, base, p, 4) = 4

U32Val(buf, base, p) ==
  At(buf, base, p) + 256 * At(buf, base, p + 1) + 65536 * At(buf, base, p + 2)
    + 16777216 * At(buf, base, p + 3)

\* ------------------------------------------------------------------------
\* Decryption engine: Game::from_exe, "Asset Data Decryption"
\* ------------------------------------------------------------------------

\* for i in 0..256 { reverse_table[swap_table[i] as usize] = i as u8; }
\* The iterations from index i up to (not including) index to, in order.
RECURSIVE FillReverseFrom(_, _, _, _)
FillReverseFrom(reverse_table, swap_table, i, to) ==
  IF i >= to THEN reverse_table
  ELSE FillReverseFrom([reverse_table EXCEPT ![swap_table[i]] = i], swap_table, i + 1, to)

\* The iterations 0 .. n-1, sixteen at a time.
RECURSIVE FillReverseBlocks(_, _, _, _)
FillReverseBlocks(reverse_table, swap_table, i, n) ==
  IF i >= n THEN reverse_table
  ELSE LET to == IF i + 16 <= n THEN i + 16 ELSE n
           block == FillReverseFrom(reverse_table, swap_table, i, to)
       \* (the test makes the block's value known before the next block starts)
       IN  IF DOMAIN block = {} THEN block
           ELSE FillReverseBlocks(block, swap_table, to, n)

\* The fill with its last iteration left out.
FillReverseShort(swap_table) ==
  FillReverseBlocks([x \in 0..(TABLE_SIZE - 1) |-> 0], swap_table, 0, TABLE_SIZE - 1)

FillReverse(swap_table) ==
  FillReverseBlocks([x \in 0..(TABLE_SIZE - 1) |-> 0], swap_table, 0, TABLE_SIZE)

\* u8::wrapping_add, u8::wrapping_sub
wrapping_add(a, b) == (a + b) % 256

wrapping_sub(a, b) == (a - b) % 256

\* The last index the first-pass loop visits: for i in (pos..=pos + len).rev()
Pass1Last(pos) == pos

\* One iteration of the first pass, at index i (i - 1 is inside the buffer).
Pass1Byte(data, base, reverse_table, pos, i) ==
  wrapping_sub(reverse_table[At(data, base, i - 1)],
               wrapping_add(At(data, base, i - 2), (i - (pos + 1)) % 256))

Pass1Write(data, base, reverse_table, pos, i) ==
  Put(data, base, i - 1, Pass1Byte(data, base, reverse_table, pos, i))

\* A second pass that does not clamp the partner to pos.
Pass2PartnerUnclamped(swap_table, pos, i) == i - swap_table[(i - pos) % 256]

\* The swap partner of the second pass.  i is at least pos, which lies beyond
\* GM80_MAGIC_POS, so the u32 subtraction never goes below 0.
Pass2Partner(swap_table, pos, i) ==
  LET b == i - swap_table[(i - pos) % 256]
  IN  IF b < pos THEN pos ELSE b

Pass2Swap(data, base, swap_table, pos, i) ==
  LET b == Pass2Partner(swap_table, pos, i)
      a == At(data, base, i)
  IN  Put(Put(data, base, i, At(data, base, b)), base, b, a)

\* The decryption engine's state at its entry: the cursor stands at the first
\* garbage-size field of exe.
DecStart(exe, position) ==
  [exe |-> exe, position |-> position, garbage1_size |-> 0, garbage2_size |-> 0,
   swap_table |-> [x \in 0..(TABLE_SIZE - 1) |-> 0],
   reverse_table |-> [x \in 0..(TABLE_SIZE - 1) |-> 0],
   len |-> 0, pos |-> 0, i |-> 0, before |-> exe, mid |-> exe, pc |-> "garbage", status |-> "running"]

DecFail(d, why) == [d EXCEPT !.pc = "failed", !.status = why]

\* garbage1_size, garbage2_size; seek(Current(garbage1_size))
DecReadGarbage(d) ==
  IF ~U32Ok(d.exe, GM80_MAGIC_POS, d.position) THEN DecFail(d, "IO")
  ELSE IF ~U32Ok(d.exe, GM80_MAGIC_POS, d.position + 4) THEN DecFail(d, "IO")
  ELSE LET g1 == U32Val(d.exe, GM80_MAGIC_POS, d.position) * 4
           g2 == U32Val(d.exe, GM80_MAGIC_POS, d.position + 4) * 4
       IN  [d EXCEPT !.garbage1_size = g1, !.garbage2_size = g2,
                     !.position = d.position + 8 + g1, !.pc = "table"]

\* assert_eq!(exe.read(&mut swap_table)?, 256); seek(Current(garbage2_size))
DecReadSwapTable(d) ==
  IF Avail(d.exe, GM80_MAGIC_POS, d.position, TABLE_SIZE) # TABLE_SIZE
  THEN DecFail(d, "panic")
  ELSE [d EXCEPT !.swap_table =
                    [x \in 0..(TABLE_SIZE - 1) |-> At(d.exe, GM80_MAGIC_POS, d.position + x)],
                 !.position = d.position + TABLE_SIZE + d.garbage2_size,
                 !.pc = "reverse"]

DecFillReverse(d) ==
  [d EXCEPT !.reverse_table = FillReverse(d.swap_table), !.pc = "len"]

\* Where the loops stand once an iteration range is known.  before and mid keep
\* the buffer as it was when the first pass started and when it ended.
DecEnterPass2(d) ==
  IF d.len >= 2 THEN [d EXCEPT !.pc = "pass2", !.i = d.pos + d.len - 2, !.mid = d.exe]
  ELSE [d EXCEPT !.pc = "done", !.status = "ok", !.mid = d.exe]

DecEnterPass1(d) ==
  IF d.pos + d.len >= Pass1Last(d.pos)
  THEN [d EXCEPT !.pc = "pass1", !.i = d.pos + d.len]
  ELSE DecEnterPass2(d)

\* let len = exe.read_u32::<LE>()? as usize; let pos = exe.position() as usize;
DecReadLen(d) ==
  IF ~U32Ok(d.exe, GM80_MAGIC_POS, d.position) THEN DecFail(d, "IO")
  ELSE DecEnterPass1([d EXCEPT !.len = U32Val(d.exe, GM80_MAGIC_POS, d.position),
                               !.pos = d.position + 4,
                               !.position = d.position + 4,
                               !.before = d.exe])

\* One iteration of the first pass; data[i - 1] outside the buffer panics.
DecPass1Step(d) ==
  IF d.i - 1 >= BufLen(d.exe, GM80_MAGIC_POS) THEN DecFail(d, "panic")
  ELSE LET w == [d EXCEPT !.exe = Pass1Write(d.exe, GM80_MAGIC_POS, d.reverse_table,
                                                d.pos, d.i),
                          !.i = d.i - 1]
       IN  IF w.i >= Pass1Last(d.pos) THEN w ELSE DecEnterPass2(w)

\* One iteration of the second pass.
DecPass2Step(d) ==
  LET w == [d EXCEPT !.exe = Pass2Swap(d.exe, GM80_MAGIC_POS, d.swap_table, d.pos, d.i),
                     !.i = d.i - 1]
  IN  IF w.i >= d.pos THEN w ELSE [w EXCEPT !.pc = "done", !.status = "ok"]

DecStep(d) ==
  CASE d.pc = "garbage" -> DecReadGarbage(d)
    [] d.pc = "table"   -> DecReadSwapTable(d)
    [] d.pc = "reverse" -> DecFillReverse(d)
    [] d.pc = "len"     -> DecReadLen(d)
    [] d.pc = "pass1"   -> DecPass1Step(d)
    [] d.pc = "pass2"   -> DecPass2Step(d)
    [] OTHER            -> d

\* The whole engine, as the driver runs it.
RECURSIVE Decrypt(_)
Decrypt(d) == IF d.pc \in {"done", "failed"} THEN d ELSE Decrypt(DecStep(d))

\* ------------------------------------------------------------------------
\* ReadString::read_string
\* ------------------------------------------------------------------------

\* String::from_utf8_lossy, to code points: ASCII and two-byte sequences are
\* decoded, any other byte becomes U+FFFD.  (Lead bytes of three- and four-byte
\* sequences, 224..244, do not occur in the model's buffers.)
RECURSIVE from_utf8_lossy(_)
from_utf8_lossy(b) ==
  IF b = <<>> THEN <<>>
  ELSE IF b[1] < 128 THEN <<b[1]>> \o from_utf8_lossy(Tail(b))
  ELSE IF b[1] \in 194..223 /\ Len(b) >= 2 /\ b[2] \in 128..191
       THEN <<(b[1] - 192) * 64 + (b[2] - 128)>> \o from_utf8_lossy(Tail(Tail(b)))
  ELSE <<65533>> \o from_utf8_lossy(Tail(b))

\* read_string at position p: ok (the prefix could be read), len (the prefix),
\* got (the bytes `self.read(&mut buf)` obtained; the code ignores the count),
\* value (buf, zero where read did not fill it, as text), position.
read_string(buf, base, p) ==
  IF ~U32Ok(buf, base, p)
  THEN [ok |-> FALSE, len |-> 0, got |-> 0, value |-> <<>>, position |-> p]
  ELSE LET len == U32Val(buf, base, p)
           got == Avail(buf, base, p + 4, len)
           bytes == Slice(buf, base, p + 4, got) \o Fill(len - got, 0)
       IN  [ok |-> TRUE, len |-> len, got |-> got, value |-> from_utf8_lossy(bytes),
            position |-> p + 4 + got]

\* ------------------------------------------------------------------------
\* GMSound::from_raw
\* ------------------------------------------------------------------------

NoData == [some |-> FALSE, bytes |-> <<>>]

\* The decoder's state on entry.  str_len and str_got keep the prefix and the
\* bytes obtained of the last string read; payload_end keeps pos + len of the
\* payload.
SndStart(data) ==
  [data |-> data, position |-> 0, pc |-> "presence", status |-> "running",
   name |-> <<>>, version |-> 0, kind |-> 0, file_type |-> <<>>, file_name |-> <<>>,
   file_data |-> NoData, reserved_at |-> 0, volume |-> <<>>, pan |-> <<>>,
   preload |-> FALSE, str_len |-> 0, str_got |-> 0, payload_end |-> 0]

SndFail(s, why) == [s EXCEPT !.pc = "failed", !.status = why]

\* if data.read_u32::<LE>()? != 0 { ... } else { Ok(None) }
SndReadPresence(s) ==
  IF ~U32Ok(s.data, 0, s.position) THEN SndFail(s, "IO")
  ELSE IF U32Val(s.data, 0, s.position) = 0
       THEN [s EXCEPT !.position = s.position + 4, !.pc = "done", !.status = "none"]
  ELSE [s EXCEPT !.position = s.position + 4, !.pc = "name"]

\* A string field: name, file_type, file_name.
SndReadStringField(s, field, next) ==
  LET r == read_string(s.data, 0, s.position)
      t == [s EXCEPT !.str_len = r.len, !.str_got = r.got, !.position = r.position]
  IN  IF ~r.ok THEN SndFail(t, "IO")
      ELSE [t EXCEPT ![field] = r.value, !.pc = next]

SndReadName(s) == SndReadStringField(s, "name", "version")

\* A u32 field: version, kind.
SndReadU32Field(s, field, next) ==
  IF ~U32Ok(s.data, 0, s.position) THEN SndFail(s, "IO")
  ELSE [s EXCEPT ![field] = U32Val(s.data, 0, s.position),
                 !.position = s.position + 4, !.pc = next]

SndReadVersion(s) == SndReadU32Field(s, "version", "kind")

SndReadKind(s) == SndReadU32Field(s, "kind", "file_type")

SndReadFileType(s) == SndReadStringField(s, "file_type", "file_name")

SndReadFileName(s) == SndReadStringField(s, "file_name", "file_data")

\* Where the cursor stands after a payload of len bytes at pos: the code
\* slices the buffer and leaves the cursor at pos.
SndAfterPayload(pos, len) == pos

\* let file_data = if data.read_u32::<LE>()? != 0 { ... } else { None };
SndReadFileData(s) ==
  IF ~U32Ok(s.data, 0, s.position) THEN SndFail(s, "IO")
  ELSE IF U32Val(s.data, 0, s.position) = 0
       THEN [s EXCEPT !.position = s.position + 4, !.payload_end = s.position + 4,
                      !.pc = "reserved"]
  ELSE IF ~U32Ok(s.data, 0, s.position + 4) THEN SndFail(s, "IO")
  ELSE LET len == U32Val(s.data, 0, s.position + 4)
           pos == s.position + 8
       IN  IF pos + len > BufLen(s.data, 0)
           THEN SndFail([s EXCEPT !.position = pos], "ReadError")
           ELSE [s EXCEPT !.file_data = [some |-> TRUE, bytes |-> Slice(s.data, 0, pos, len)],
                          !.position = SndAfterPayload(pos, len),
                          !.payload_end = pos + len,
                          !.pc = "reserved"]

\* let _ = data.read_u32::<LE>()?;
SndReadReserved(s) ==
  IF ~U32Ok(s.data, 0, s.position) THEN SndFail(s, "IO")
  ELSE [s EXCEPT !.reserved_at = s.position, !.position = s.position + 4, !.pc = "volume"]

\* read_f64::<LE>: the eight bytes of the bit pattern.
SndReadF64Field(s, field, next) ==
  IF Avail(s.data, 0, s.position, 8) # 8 THEN SndFail(s, "IO")
  ELSE [s EXCEPT ![field] = Slice(s.data, 0, s.position, 8),
                 !.position = s.position + 8, !.pc = next]

SndReadVolume(s) == SndReadF64Field(s, "volume", "pan")

SndReadPan(s) == SndReadF64Field(s, "pan", "preload")

\* let preload = data.read_u32::<LE>()? != 0; Ok(Some(..))
SndReadPreload(s) ==
  IF ~U32Ok(s.data, 0, s.position) THEN SndFail(s, "IO")
  ELSE [s EXCEPT !.preload = (U32Val(s.data, 0, s.position) # 0),
                 !.position = s.position + 4, !.pc = "done", !.status = "some"]

SndStep(s) ==
  CASE s.pc = "presence"  -> SndReadPresence(s)
    [] s.pc = "name"      -> SndReadName(s)
    [] s.pc = "version"   -> SndReadVersion(s)
    [] s.pc = "kind"      -> SndReadKind(s)
    [] s.pc = "file_type" -> SndReadFileType(s)
    [] s.pc = "file_name" -> SndReadFileName(s)
    [] s.pc = "file_data" -> SndReadFileData(s)
    [] s.pc = "reserved"  -> SndReadReserved(s)
    [] s.pc = "volume"    -> SndReadVolume(s)
    [] s.pc = "pan"       -> SndReadPan(s)
    [] s.pc = "preload"   -> SndReadPreload(s)
    [] OTHER              -> s

\* The whole decoder, as the driver calls it.
RECURSIVE GMSound_from_raw(_)
GMSound_from_raw(s) ==
  IF s.pc \in {"done", "failed"} THEN s ELSE GMSound_from_raw(SndStep(s))

\* ------------------------------------------------------------------------
\* u32 arithmetic on little-endian bytes
\* ------------------------------------------------------------------------

Zero32 == <<0, 0, 0, 0>>

Four32 == <<4, 0, 0, 0>>

\* The bytes at position p of a u32 that was read (U32Ok holds there).
U32Bytes(buf, base, p) == Slice(buf, base, p, 4)

\* Column k (from 0) of the schoolbook product of two byte strings.
RECURSIVE MulColumn(_, _, _, _)
MulColumn(a, b, k, i) ==
  IF i > Len(a) THEN 0
  ELSE (IF k + 2 - i \in 1..Len(b) THEN a[i] * b[k + 2 - i] ELSE 0)
         + MulColumn(a, b, k, i + 1)

RECURSIVE MulCarry(_, _, _, _)
MulCarry(a, b, k, carry) ==
  IF k >= Len(a) + Len(b) THEN <<>>
  ELSE LET t == MulColumn(a, b, k, 1) + carry
       IN  <<t % 256>> \o MulCarry(a, b, k + 1, t \div 256)

\* The exact product, Len(a) + Len(b) bytes.
MulExact(a, b) == MulCarry(a, b, 0, 0)

\* Is a byte string zero from byte k (from 1) on?
ZeroFrom(a, k) == \A j \in k..Len(a) : a[j] = 0

\* Do two byte strings denote the same number?
SameNumber(a, b) ==
  \A j \in 1..(IF Len(a) > Len(b) THEN Len(a) ELSE Len(b)) :
    (IF j <= Len(a) THEN a[j] ELSE 0) = (IF j <= Len(b) THEN b[j] ELSE 0)

\* The low 32 bits of a * b, the result of u32 `*` when overflow is not checked.
wrapping_mul(a, b) == SubSeq(MulExact(a, b), 1, 4)

\* Does a * b exceed u32?  (`*` panics there when overflow is checked.)
mul_overflows(a, b) == ~ZeroFrom(MulExact(a, b), 5)

\* Do n items of `unit` bytes fit in `room` bytes?  (No buffer of the model
\* holds 65536 bytes.)
CountFits(n, unit, room) ==
  /\ n[3] = 0 /\ n[4] = 0
  /\ (n[1] + 256 * n[2]) * unit <= room

\* n as an integer, for n that fits.
Count(n) == n[1] + 256 * n[2]

\* ------------------------------------------------------------------------
\* GMSprite::from_raw
\* ------------------------------------------------------------------------

\* The decoder's state on entry.  overflow_checks says whether the build checks
\* integer overflow (`*` panics, as in a debug build) or not (`*` wraps, as in a
\* release build).  frame_log keeps, per pushed frame, the width, height and
\* pixel-data length its header declared; k counts the iterations of the
\* running loop.
SprStart(data, overflow_checks) ==
  [data |-> data, position |-> 0, pc |-> "presence", status |-> "running",
   overflow_checks |-> overflow_checks,
   name |-> <<>>, version |-> 0, origin_x |-> 0, origin_y |-> 0, frame_count |-> 0,
   width |-> Zero32, height |-> Zero32, has_frames |-> FALSE, frames |-> <<>>,
   colliders |-> <<>>, per_frame_colliders |-> FALSE, k |-> 0,
   frame_log |-> <<>>, str_len |-> 0, str_got |-> 0]

SprFail(s, why) == [s EXCEPT !.pc = "failed", !.status = why]

\* if data.read_u32::<LE>()? != 0 { ... } else { Ok(None) }
SprReadPresence(s) ==
  IF ~U32Ok(s.data, 0, s.position) THEN SprFail(s, "IO")
  ELSE IF U32Val(s.data, 0, s.position) = 0
       THEN [s EXCEPT !.position = s.position + 4, !.pc = "done", !.status = "none"]
  ELSE [s EXCEPT !.position = s.position + 4, !.pc = "name"]

\* let name = data.read_string()?;
SprReadName(s) ==
  LET r == read_string(s.data, 0, s.position)
      t == [s EXCEPT !.str_len = r.len, !.str_got = r.got, !.position = r.position]
  IN  IF ~r.ok THEN SprFail(t, "IO") ELSE [t EXCEPT !.name = r.value, !.pc = "header"]

\* version, origin_x, origin_y, frame_count; a frame count of 0 ends the decode
\* with (None, None, false).
SprReadHeader(s) ==
  IF Avail(s.data, 0, s.position, 16) # 16 THEN SprFail(s, "IO")
  ELSE LET n == U32Val(s.data, 0, s.position + 12)
           t == [s EXCEPT !.version = U32Val(s.data, 0, s.position),
                          !.origin_x = U32Val(s.data, 0, s.position + 4),
                          !.origin_y = U32Val(s.data, 0, s.position + 8),
                          !.frame_count = n,
                          !.position = s.position + 16]
       IN  IF n # 0 THEN [t EXCEPT !.pc = "frame", !.has_frames = TRUE, !.k = 0]
           ELSE [t EXCEPT !.pc = "done", !.status = "some"]

\* sanity check 1: may the frame's size be compared with the sprite's yet?
SizeEstablished(width, height) == width # Zero32 /\ height # Zero32

\* convert BGRA to RGBA: swap bytes 0 and 2 of every 4-byte pixel.
RECURSIVE SwapRedBlue(_)
SwapRedBlue(px) ==
  IF Len(px) < 4 THEN <<>>
  ELSE <<px[3], px[2], px[1], px[4]>> \o SwapRedBlue(SubSeq(px, 5, Len(px)))

\* The frame's bytes converted in place, then copied out as the frame buffer.
SprConvertFrame(s, start, pixels) ==
  LET n == 4 * Count(pixels)
      rgba == SwapRedBlue(Slice(s.data, 0, start, n))
  IN  [s EXCEPT !.data = SubSeq(s.data, 1, start) \o rgba
                           \o SubSeq(s.data, start + n + 1, Len(s.data)),
                !.frames = Append(s.frames, rgba),
                !.position = start + n]

\* After a frame: the next one, or the collider flag.
SprNextFrame(s) ==
  IF s.k + 1 < s.frame_count THEN [s EXCEPT !.k = s.k + 1]
  ELSE [s EXCEPT !.k = 0, !.pc = "collider_flag"]

\* sanity check 2 and the pixel data of one frame, the size being settled.
SprReadPixels(s, declared) ==
  LET pixels == wrapping_mul(s.width, s.height)
      bytes == wrapping_mul(pixels, Four32)
      start == s.position + 16
  IN  IF ~U32Ok(s.data, 0, s.position + 12) THEN SprFail(s, "IO")
      ELSE IF s.overflow_checks /\ mul_overflows(s.width, s.height) THEN SprFail(s, "panic")
      ELSE IF s.overflow_checks /\ mul_overflows(pixels, Four32) THEN SprFail(s, "panic")
      ELSE IF U32Bytes(s.data, 0, s.position + 12) # bytes
           THEN SprFail(s, "InconsistentPixelDataLength")
      ELSE IF ~CountFits(pixels, 4, BufLen(s.data, 0) - start) THEN SprFail(s, "panic")
      ELSE SprNextFrame(SprConvertFrame(
             [s EXCEPT !.frame_log = Append(s.frame_log, declared)], start, pixels))

\* One iteration of the frame loop.
SprReadFrame(s) ==
  IF Avail(s.data, 0, s.position, 12) # 12 THEN SprFail(s, "IO")
  ELSE LET frame_width == U32Bytes(s.data, 0, s.position + 4)
           frame_height == U32Bytes(s.data, 0, s.position + 8)
           declared == [width |-> frame_width, height |-> frame_height,
                        len |-> IF U32Ok(s.data, 0, s.position + 12)
                                THEN U32Bytes(s.data, 0, s.position + 12) ELSE Zero32]
       IN  IF SizeEstablished(s.width, s.height)
           THEN IF s.width # frame_width \/ s.height # frame_height
                THEN SprFail(s, "InconsistentFrameDimensions")
                ELSE SprReadPixels(s, declared)
           ELSE SprReadPixels([s EXCEPT !.width = frame_width, !.height = frame_height],
                              declared)

\* let per_frame_colliders = data.read_u32::<LE>()? != 0;
SprReadColliderFlag(s) ==
  IF ~U32Ok(s.data, 0, s.position) THEN SprFail(s, "IO")
  ELSE [s EXCEPT !.per_frame_colliders = (U32Val(s.data, 0, s.position) # 0),
                 !.position = s.position + 4, !.pc = "collider", !.k = 0]

\* The mask: one byte per 4-byte integer, 1 when it is nonzero.
MaskOf(data, at, n) ==
  [j \in 1..n |-> IF U32Bytes(data, 0, at + 4 * (j - 1)) # Zero32 THEN 1 ELSE 0]

\* How many collision maps the loop reads.
ColliderCount(s) == IF s.per_frame_colliders THEN s.frame_count ELSE 1

\* read_collision, and the push of its result.
SprReadCollision(s) ==
  IF Avail(s.data, 0, s.position, 28) # 28 THEN SprFail(s, "IO")
  ELSE LET width == U32Bytes(s.data, 0, s.position + 4)
           height == U32Bytes(s.data, 0, s.position + 8)
           mask_size == wrapping_mul(width, height)
           at == s.position + 28
       IN  IF s.overflow_checks /\ mul_overflows(width, height) THEN SprFail(s, "panic")
           ELSE IF ~CountFits(mask_size, 4, BufLen(s.data, 0) - at) THEN SprFail(s, "IO")
           ELSE LET map == [version |-> U32Val(s.data, 0, s.position),
                            width |-> width, height |-> height,
                            left |-> U32Val(s.data, 0, s.position + 12),
                            right |-> U32Val(s.data, 0, s.position + 16),
                            bottom |-> U32Val(s.data, 0, s.position + 20),
                            top |-> U32Val(s.data, 0, s.position + 24),
                            data |-> MaskOf(s.data, at, Count(mask_size))]
                    t == [s EXCEPT !.colliders = Append(s.colliders, map),
                                   !.position = at + 4 * Count(mask_size)]
                IN  IF s.k + 1 < ColliderCount(s) THEN [t EXCEPT !.k = s.k + 1]
                    ELSE [t EXCEPT !.pc = "done", !.status = "some"]

SprStep(s) ==
  CASE s.pc = "presence"      -> SprReadPresence(s)
    [] s.pc = "name"          -> SprReadName(s)
    [] s.pc = "header"        -> SprReadHeader(s)
    [] s.pc = "frame"         -> SprReadFrame(s)
    [] s.pc = "collider_flag" -> SprReadColliderFlag(s)
    [] s.pc = "collider"      -> SprReadCollision(s)
    [] OTHER                  -> s

\* The whole decoder, as the driver calls it.
RECURSIVE GMSprite_from_raw(_)
GMSprite_from_raw(s) ==
  IF s.pc \in {"done", "failed"} THEN s ELSE GMSprite_from_raw(SprStep(s))

\* ------------------------------------------------------------------------
\* inflate
\* ------------------------------------------------------------------------

\* ZlibDecoder stands outside the repository; the model keeps what the reader
\* relies on: a chunk decodes to a buffer whose length is not the chunk's, bytes
\* after the end of the stream are ignored, and a malformed chunk is an error.
\* A chunk is one length byte n, then n stored bytes.
ChunkOk(slice) == slice # <<>> /\ Len(slice) >= 1 + slice[1]

ChunkData(slice) == SubSeq(slice, 2, 1 + slice[1])

\* inflate(data, pos, len): status "ReadError" (the slice is out of range),
\* "IO" (the decoder failed) or "ok", and the decompressed buffer.
inflate(data, base, pos, len) ==
  IF pos + len > BufLen(data, base) THEN [status |-> "ReadError", buf |-> <<>>]
  ELSE IF ~ChunkOk(Slice(data, base, pos, len)) THEN [status |-> "IO", buf |-> <<>>]
  ELSE [status |-> "ok", buf |-> ChunkData(Slice(data, base, pos, len))]

\* ------------------------------------------------------------------------
\* Game::from_exe
\* ------------------------------------------------------------------------

MZ == <<77, 90>>

\* What the driver keeps of a decoded slot.
NoAsset == [some |-> FALSE]

SoundAsset(s) ==
  IF s.status # "some" THEN NoAsset
  ELSE [some |-> TRUE, name |-> s.name, version |-> s.version, kind |-> s.kind,
        file_type |-> s.file_type, file_name |-> s.file_name, file_data |-> s.file_data,
        volume |-> s.volume, pan |-> s.pan, preload |-> s.preload]

SpriteAsset(s) ==
  IF s.status # "some" THEN NoAsset
  ELSE [some |-> TRUE, name |-> s.name, version |-> s.version,
        size |-> [width |-> s.width, height |-> s.height],
        origin |-> [x |-> s.origin_x, y |-> s.origin_y],
        frame_count |-> s.frame_count, has_frames |-> s.has_frames, frames |-> s.frames,
        colliders |-> s.colliders, per_frame_colliders |-> s.per_frame_colliders]

\* The driver's state on entry: head holds the first two bytes of the file (or
\* fewer, for a shorter file), exe the bytes from offset GM80_MAGIC_POS on.
\* sounds_at and sprites_at keep where the first slot of each section starts, k
\* counts the iterations of the running loop.
DrvStart(head, exe, verbose, overflow_checks) ==
  [head |-> head, exe |-> exe, verbose |-> verbose, overflow_checks |-> overflow_checks,
   position |-> 0, pc |-> "header", status |-> "running", k |-> 0,
   sound_count |-> 0, sounds |-> <<>>, sounds_at |-> 0,
   sprite_count |-> 0, sprites |-> <<>>, sprites_at |-> 0]

DrvFail(r, why) == [r EXCEPT !.pc = "failed", !.status = why]

\* if exe.get(0..2)? != b"MZ" { return Err(InvalidExeHeader) }
DrvHeader(r) ==
  IF Len(r.head) < 2 THEN DrvFail(r, "ReadError")
  ELSE IF r.head # MZ THEN DrvFail(r, "InvalidExeHeader")
  ELSE [r EXCEPT !.pc = "magic"]

\* exe.set_position(GM80_MAGIC_POS); the magic; exe.seek(SeekFrom::Current(12))
DrvMagic(r) ==
  IF ~U32Ok(r.exe, GM80_MAGIC_POS, GM80_MAGIC_POS)
  THEN DrvFail([r EXCEPT !.position = GM80_MAGIC_POS], "IO")
  ELSE IF U32Val(r.exe, GM80_MAGIC_POS, GM80_MAGIC_POS) # GM80_MAGIC
       THEN DrvFail([r EXCEPT !.position = GM80_MAGIC_POS + 4], "InvalidMagic")
  ELSE [r EXCEPT !.position = GM80_MAGIC_POS + 4 + 12, !.pc = "settings"]

\* Where the cursor stands after a chunk of declared length len at position,
\* whatever it inflated to: exe.seek(SeekFrom::Current(len as i64))
ChunkEnd(position, len, inflated) == position + len

\* Game Settings: the length, inflate, the seek.
DrvSettings(r) ==
  IF ~U32Ok(r.exe, GM80_MAGIC_POS, r.position) THEN DrvFail(r, "IO")
  ELSE LET settings_len == U32Val(r.exe, GM80_MAGIC_POS, r.position)
           z == inflate(r.exe, GM80_MAGIC_POS, r.position + 4, settings_len)
       IN  IF z.status # "ok" THEN DrvFail([r EXCEPT !.position = r.position + 4], z.status)
           ELSE [r EXCEPT !.position = ChunkEnd(r.position + 4, settings_len, z.buf),
                          !.pc = "dll_name"]

\* The DLL name, skipped by read_string when verbose ...
DllNameVerbose(r) ==
  LET n == read_string(r.exe, GM80_MAGIC_POS, r.position)
  IN  IF ~n.ok THEN DrvFail(r, "IO")
      ELSE [r EXCEPT !.position = n.position, !.pc = "dll_data"]

\* ... and by a read of the prefix and a seek otherwise.
DllNameQuiet(r) ==
  IF ~U32Ok(r.exe, GM80_MAGIC_POS, r.position) THEN DrvFail(r, "IO")
  ELSE [r EXCEPT !.position = r.position + 4 + U32Val(r.exe, GM80_MAGIC_POS, r.position),
                 !.pc = "dll_data"]

DrvDllName(r) == IF r.verbose THEN DllNameVerbose(r) ELSE DllNameQuiet(r)

\* skip embedded dll data chunk
DrvDllData(r) ==
  IF ~U32Ok(r.exe, GM80_MAGIC_POS, r.position) THEN DrvFail(r, "IO")
  ELSE [r EXCEPT !.position = r.position + 4 + U32Val(r.exe, GM80_MAGIC_POS, r.position),
                 !.pc = "decrypt"]

\* Asset Data Decryption
DrvDecrypt(r) ==
  LET d == Decrypt(DecStart(r.exe, r.position))
  IN  IF d.pc = "failed" THEN DrvFail([r EXCEPT !.exe = d.exe, !.position = d.position],
                                      d.status)
      ELSE [r EXCEPT !.exe = d.exe, !.position = d.position, !.pc = "garbage"]

TwoTo30 == 1073741824

\* let garbage = ((exe.read_u32::<LE>()? + 6) * 4) as i64; the seek.
DrvGarbage(r) ==
  IF ~U32Ok(r.exe, GM80_MAGIC_POS, r.position) THEN DrvFail(r, "IO")
  ELSE LET n == U32Val(r.exe, GM80_MAGIC_POS, r.position)
       IN  IF n + 6 >= TwoTo30 /\ r.overflow_checks
           THEN DrvFail([r EXCEPT !.position = r.position + 4], "panic")
           ELSE [r EXCEPT !.position = r.position + 4 + ((n + 6) % TwoTo30) * 4,
                          !.pc = "extensions"]

\* A version and a count, read and not used: Extensions, Triggers, Constants.
DrvSkipSection(r, next) ==
  IF Avail(r.exe, GM80_MAGIC_POS, r.position, 8) # 8 THEN DrvFail(r, "IO")
  ELSE [r EXCEPT !.position = r.position + 8, !.pc = next]

DrvExtensions(r) == DrvSkipSection(r, "triggers")

DrvTriggers(r) == DrvSkipSection(r, "constants")

DrvConstants(r) == DrvSkipSection(r, "sounds")

\* sounds_ver, sound_count; no slot is read when the count is 0.
DrvSounds(r) ==
  IF Avail(r.exe, GM80_MAGIC_POS, r.position, 8) # 8 THEN DrvFail(r, "IO")
  ELSE LET n == U32Val(r.exe, GM80_MAGIC_POS, r.position + 4)
       IN  [r EXCEPT !.sound_count = n, !.position = r.position + 8,
                     !.sounds_at = r.position + 8, !.k = 0,
                     !.pc = IF n # 0 THEN "sound_slot" ELSE "sprites"]

\* A driver that keeps only the populated slots.
PushPresent(slots, asset) == IF asset.some THEN Append(slots, asset) ELSE slots

\* sounds.push(sound)
PushSlot(slots, asset) == Append(slots, asset)

\* One iteration of the sound loop.
DrvSoundSlot(r) ==
  IF ~U32Ok(r.exe, GM80_MAGIC_POS, r.position) THEN DrvFail(r, "IO")
  ELSE LET len == U32Val(r.exe, GM80_MAGIC_POS, r.position)
           z == inflate(r.exe, GM80_MAGIC_POS, r.position + 4, len)
           s == GMSound_from_raw(SndStart(z.buf))
           t == [r EXCEPT !.position = ChunkEnd(r.position + 4, len, z.buf)]
       IN  IF z.status # "ok" THEN DrvFail([r EXCEPT !.position = r.position + 4], z.status)
           ELSE IF s.pc = "failed" THEN DrvFail(t, s.status)
           ELSE LET u == [t EXCEPT !.sounds = PushSlot(r.sounds, SoundAsset(s)),
                                   !.k = r.k + 1]
                IN  IF u.k < r.sound_count THEN u ELSE [u EXCEPT !.pc = "sprites"]

\* sprites_ver, sprite_count
DrvSprites(r) ==
  IF Avail(r.exe, GM80_MAGIC_POS, r.position, 8) # 8 THEN DrvFail(r, "IO")
  ELSE LET n == U32Val(r.exe, GM80_MAGIC_POS, r.position + 4)
       IN  IF n # 0
           THEN [r EXCEPT !.sprite_count = n, !.position = r.position + 8,
                          !.sprites_at = r.position + 8, !.k = 0, !.pc = "sprite_slot"]
           ELSE [r EXCEPT !.sprite_count = n, !.position = r.position + 8,
                          !.sprites_at = r.position + 8, !.pc = "done", !.status = "ok"]

\* One iteration of the sprite loop.
DrvSpriteSlot(r) ==
  IF ~U32Ok(r.exe, GM80_MAGIC_POS, r.position) THEN DrvFail(r, "IO")
  ELSE LET len == U32Val(r.exe, GM80_MAGIC_POS, r.position)
           z == inflate(r.exe, GM80_MAGIC_POS, r.position + 4, len)
           s == GMSprite_from_raw(SprStart(z.buf, r.overflow_checks))
           t == [r EXCEPT !.position = ChunkEnd(r.position + 4, len, z.buf)]
       IN  IF z.status # "ok" THEN DrvFail([r EXCEPT !.position = r.position + 4], z.status)
           ELSE IF s.pc = "failed" THEN DrvFail(t, s.status)
           ELSE LET u == [t EXCEPT !.sprites = PushSlot(r.sprites, SpriteAsset(s)),
                                   !.k = r.k + 1]
                IN  IF u.k < r.sprite_count THEN u
                    ELSE [u EXCEPT !.pc = "done", !.status = "ok"]

\* ------------------------------------------------------------------------
\* Containers the decryption specification starts from
\* ------------------------------------------------------------------------

\* Swap tables x |-> (a * x + c) mod 256: a bijection exactly when a is odd.
TableMults == {1, 5, 2}

TableShifts == {0, 7, 255}

AffineTable(a, c) == [x \in 0..(TABLE_SIZE - 1) |-> (a * x + c) % 256]

TableBytes(t) == [k \in 1..TABLE_SIZE |-> t[k - 1]]

\* Byte values of the region's content.
RegionBytes == {1, 200}

RECURSIVE SeqsOf(_, _)
SeqsOf(S, n) ==
  IF n = 0 THEN {<<>>} ELSE {<<x>> \o s : x \in S, s \in SeqsOf(S, n - 1)}

SeqsUpTo(S, n) == UNION {SeqsOf(S, k) : k \in 0..n}

\* Bytes dropped from the end of the file: none, into the region, into the table.
CutRegion == 3

CutTable == 100

DecCuts == {0, CutRegion, CutTable}

DropLast(s, n) == IF n >= Len(s) THEN <<>> ELSE SubSeq(s, 1, Len(s) - n)

\* Magic, version block, a one-byte settings chunk, an empty DLL name and payload.
ExePrefix ==
  LE32(GM80_MAGIC) \o Fill(12, 0) \o LE32(1) \o <<0>> \o LE32(0) \o LE32(0)

\* The two garbage counts, garbage, the table, garbage, the length, the region.
DecSection(g1, g2, table, len, content) ==
  LE32(g1) \o LE32(g2) \o Fill(4 * g1, 170) \o TableBytes(table) \o Fill(4 * g2, 187)
    \o LE32(len) \o content

DecInputs ==
  {DropLast(ExePrefix \o DecSection(g[1], g[2], AffineTable(a, c), Len(content), content)
              \o <<9, 9>>, cut) :
     g \in {<<0, 0>>, <<1, 0>>, <<0, 1>>}, a \in TableMults, c \in TableShifts,
     content \in SeqsUpTo(RegionBytes, MaxRegion), cut \in DecCuts}

\* ------------------------------------------------------------------------
\* Idle values of the components a specification does not run
\* ------------------------------------------------------------------------

Idle == [pc |-> "idle"]

\* ------------------------------------------------------------------------
\* Specification of the decryption engine
\* ------------------------------------------------------------------------

DecInit ==
  /\ dec \in {DecStart(exe, GM80_MAGIC_POS + Len(ExePrefix)) : exe \in DecInputs}
  /\ snd = Idle /\ spr = Idle /\ run = Idle /\ rt = Idle

ReadGarbage ==
  /\ dec.pc = "garbage"
  /\ dec' = DecReadGarbage(dec)
  /\ UNCHANGED <<snd, spr, run, rt>>

ReadSwapTable ==
  /\ dec.pc = "table"
  /\ dec' = DecReadSwapTable(dec)
  /\ UNCHANGED <<snd, spr, run, rt>>

FillReverseTable ==
  /\ dec.pc = "reverse"
  /\ dec' = DecFillReverse(dec)
  /\ UNCHANGED <<snd, spr, run, rt>>

ReadLen ==
  /\ dec.pc = "len"
  /\ dec' = DecReadLen(dec)
  /\ UNCHANGED <<snd, spr, run, rt>>

Pass1 ==
  /\ dec.pc = "pass1"
  /\ dec' = DecPass1Step(dec)
  /\ UNCHANGED <<snd, spr, run, rt>>

Pass2 ==
  /\ dec.pc = "pass2"
  /\ dec' = DecPass2Step(dec)
  /\ UNCHANGED <<snd, spr, run, rt>>

DecNext == ReadGarbage \/ ReadSwapTable \/ FillReverseTable \/ ReadLen \/ Pass1 \/ Pass2

SpecDecrypt == DecInit /\ [][DecNext]_vars

\* ------------------------------------------------------------------------
\* Claims about the decryption engine
\* ------------------------------------------------------------------------

DecOffsets == GM80_MAGIC_POS..(BufLen(dec.exe, GM80_MAGIC_POS) - 1)

DecPass1Over == dec.pc \in {"pass2", "done"}

\* C1: the first pass stops at index pos + 2: it is never about to visit an
\* index below pos + 2, and once it is over, data[pos] and every byte before
\* the region hold the value they had when the pass started.
C1_Pass1StopsAtPosPlus2 ==
  /\ dec.pc = "pass1" => dec.i >= dec.pos + 2
  /\ DecPass1Over =>
       \A p \in DecOffsets : p <= dec.pos => At(dec.mid, GM80_MAGIC_POS, p)
                                              = At(dec.before, GM80_MAGIC_POS, p)

DecTableFilled == dec.pc \in {"len", "pass1", "pass2", "done"}

TableIndex == 0..(TABLE_SIZE - 1)

\* C4 as stated: for every table the container supplies, the reverse table is
\* the inverse of the swap table in both directions.
C4_InverseForEveryTable ==
  DecTableFilled =>
    \A x \in TableIndex :
      /\ dec.reverse_table[dec.swap_table[x]] = x
      /\ dec.swap_table[dec.reverse_table[x]] = x

\* C4 as amended: ReverseTable[y] is the largest index holding y in SwapTable
\* (0 when no index holds y), so the two identities hold for all x exactly
\* when SwapTable is a bijection.
C4_InverseExactlyWhenBijective ==
  dec.pc = "len" =>
    LET st == dec.swap_table
        rev == dec.reverse_table
        image == {st[x] : x \in TableIndex}
    IN  /\ \A x \in TableIndex : st[rev[st[x]]] = st[x] /\ rev[st[x]] >= x
        /\ \A y \in TableIndex : y \notin image => rev[y] = 0
        /\ (Cardinality(image) = TABLE_SIZE)
             <=> (\A x \in TableIndex : rev[st[x]] = x /\ st[rev[x]] = x)

\* A bijective table other than the identity has been inverted.
C4_Witness ==
  /\ dec.pc = "len"
  /\ Cardinality({dec.swap_table[x] : x \in TableIndex}) = TABLE_SIZE
  /\ dec.swap_table[1] = 12
  /\ dec.reverse_table[12] = 1

DecRegion == dec.pos..(dec.pos + dec.len - 1)

\* The partner as the format describes it: i - SwapTable[(i - pos) mod 256], and
\* pos where that lies below pos.
PartnerOf(i) ==
  LET raw == i - dec.swap_table[(i - dec.pos) % 256]
  IN  IF raw > dec.pos THEN raw ELSE dec.pos

\* data with the bytes at i and PartnerOf(i) exchanged, for i from from down to to.
RECURSIVE SwappedDown(_, _, _)
SwappedDown(data, from, to) ==
  IF from < to THEN data
  ELSE LET b == PartnerOf(from)
           swapped == [k \in DOMAIN data |->
                         IF k = from - GM80_MAGIC_POS + 1 THEN At(data, GM80_MAGIC_POS, b)
                         ELSE IF k = b - GM80_MAGIC_POS + 1
                              THEN At(data, GM80_MAGIC_POS, from)
                         ELSE data[k]]
       IN  SwappedDown(swapped, from - 1, to)

Occurrences(data, v) == Cardinality({p \in DecRegion : At(data, GM80_MAGIC_POS, p) = v})

\* C11: the second pass visits i from pos + len - 2 down to pos, the partner of
\* every step is max(pos, i - SwapTable[(i - pos) mod 256]) and lies in pos..i;
\* the pass exchanges bytes inside the region only: every byte outside it stays
\* as the first pass left it, and so does the multiset of the bytes inside.
C11_Pass2StaysInRegion ==
  /\ dec.pc = "pass2" =>
       /\ dec.i \in dec.pos..(dec.pos + dec.len - 2)
       /\ Pass2Partner(dec.swap_table, dec.pos, dec.i) = PartnerOf(dec.i)
       /\ PartnerOf(dec.i) \in dec.pos..dec.i
       /\ dec.exe = SwappedDown(dec.mid, dec.pos + dec.len - 2, dec.i + 1)
  /\ dec.pc = "done" =>
       dec.exe = SwappedDown(dec.mid, dec.pos + dec.len - 2, dec.pos)
  /\ dec.pc \in {"pass2", "done"} =>
       /\ \A p \in DecOffsets \ DecRegion :
            At(dec.exe, GM80_MAGIC_POS, p) = At(dec.mid, GM80_MAGIC_POS, p)
       /\ \A v \in Byte : Occurrences(dec.exe, v) = Occurrences(dec.mid, v)

\* The second pass is over on a region of four bytes and has moved bytes: the
\* partner of pos + 2 lay inside the region, that of pos was clamped to pos.
C11_Witness ==
  /\ dec.pc = "done"
  /\ dec.len = 4
  /\ dec.swap_table[2] = 1
  /\ dec.swap_table[0] = 255
  /\ dec.exe # dec.mid

\* ------------------------------------------------------------------------
\* Specification of the sound decoder
\* ------------------------------------------------------------------------

\* Longest raw payload of a sound record.
MaxPayload == 2

SOUND_VERSION == 800

F64Zero == Fill(8, 0)

\* 1.0 and -0.5 as little-endian f64 bit patterns
F64One == <<0, 0, 0, 0, 0, 0, 240, 63>>

F64MinusHalf == <<0, 0, 0, 0, 0, 0, 224, 191>>

PascalString(bytes) == LE32(Len(bytes)) \o bytes

\* A populated sound slot as the container stores it.
SoundRecord(name, kind, file_type, file_name, file_data, volume, pan, preload) ==
  LE32(1) \o PascalString(name) \o LE32(SOUND_VERSION) \o LE32(kind)
    \o PascalString(file_type) \o PascalString(file_name)
    \o (IF file_data.some THEN LE32(1) \o PascalString(file_data.bytes) ELSE LE32(0))
    \o LE32(0) \o volume \o pan \o LE32(preload)

Payloads ==
  {NoData} \cup {[some |-> TRUE, bytes |-> b] : b \in SeqsUpTo({1, 2}, MaxPayload)}

SoundRecords ==
  {LE32(0)} \cup
  {SoundRecord(name, 1, <<46, 119>>, file_name, file_data, volume, F64MinusHalf, preload) :
     name \in {<<>>, <<97, 98>>}, file_name \in {<<>>, <<255>>},
     file_data \in Payloads, volume \in {F64Zero, F64One}, preload \in {0, 2}}

\* Every record, whole or cut short at any byte.
Prefixes(S) == UNION {{SubSeq(r, 1, k) : k \in 0..Len(r)} : r \in S}

SndInit ==
  /\ snd \in {SndStart(data) : data \in Prefixes(SoundRecords)}
  /\ dec = Idle /\ spr = Idle /\ run = Idle /\ rt = Idle

SoundPresence ==
  /\ snd.pc = "presence"
  /\ snd' = SndReadPresence(snd)
  /\ UNCHANGED <<dec, spr, run, rt>>

SoundName ==
  /\ snd.pc = "name"
  /\ snd' = SndReadName(snd)
  /\ UNCHANGED <<dec, spr, run, rt>>

SoundVersion ==
  /\ snd.pc = "version"
  /\ snd' = SndReadVersion(snd)
  /\ UNCHANGED <<dec, spr, run, rt>>

SoundKind ==
  /\ snd.pc = "kind"
  /\ snd' = SndReadKind(snd)
  /\ UNCHANGED <<dec, spr, run, rt>>

SoundFileType ==
  /\ snd.pc = "file_type"
  /\ snd' = SndReadFileType(snd)
  /\ UNCHANGED <<dec, spr, run, rt>>

SoundFileName ==
  /\ snd.pc = "file_name"
  /\ snd' = SndReadFileName(snd)
  /\ UNCHANGED <<dec, spr, run, rt>>

SoundFileData ==
  /\ snd.pc = "file_data"
  /\ snd' = SndReadFileData(snd)
  /\ UNCHANGED <<dec, spr, run, rt>>

SoundReserved ==
  /\ snd.pc = "reserved"
  /\ snd' = SndReadReserved(snd)
  /\ UNCHANGED <<dec, spr, run, rt>>

SoundVolume ==
  /\ snd.pc = "volume"
  /\ snd' = SndReadVolume(snd)
  /\ UNCHANGED <<dec, spr, run, rt>>

SoundPan ==
  /\ snd.pc = "pan"
  /\ snd' = SndReadPan(snd)
  /\ UNCHANGED <<dec, spr, run, rt>>

SoundPreload ==
  /\ snd.pc = "preload"
  /\ snd' = SndReadPreload(snd)
  /\ UNCHANGED <<dec, spr, run, rt>>

SndNext ==
  \/ SoundPresence \/ SoundName \/ SoundVersion \/ SoundKind \/ SoundFileType
  \/ SoundFileName \/ SoundFileData \/ SoundReserved \/ SoundVolume \/ SoundPan
  \/ SoundPreload

SpecSound == SndInit /\ [][SndNext]_vars

\* ------------------------------------------------------------------------
\* Claims about the sound decoder
\* ------------------------------------------------------------------------

\* C2: when the payload is present, the reserved field is read at the byte
\* after the payload, and a decoded sound's volume, pan and preload flag are
\* the values stored after the payload and the reserved field.
C2_TrailerReadAfterPayload ==
  /\ (snd.pc \in {"volume", "pan", "preload"} /\ snd.file_data.some)
       => snd.reserved_at = snd.payload_end
  /\ (snd.pc = "done" /\ snd.status = "some" /\ snd.file_data.some)
       => /\ snd.payload_end + 24 <= BufLen(snd.data, 0)
          /\ snd.volume = Slice(snd.data, 0, snd.payload_end + 4, 8)
          /\ snd.pan = Slice(snd.data, 0, snd.payload_end + 12, 8)
          /\ snd.preload = (U32Val(snd.data, 0, snd.payload_end + 20) # 0)

\* C5: a string read whose prefix exceeds the bytes that remain fails (the
\* decoder is failed right after it), and no sound is decoded from a string
\* that was read short.
C5_ShortStringReadFails ==
  /\ (snd.pc # "idle" /\ snd.str_got < snd.str_len) => snd.pc = "failed"
  /\ (snd.pc = "done" /\ snd.status = "some") => snd.str_got = snd.str_len

\* ------------------------------------------------------------------------
\* Specification of the sprite decoder
\* ------------------------------------------------------------------------

\* Most frames a sprite record of the model declares.
MaxFrames == 2

SPRITE_VERSION == 800

Pixel1 == <<10, 20, 30, 40>>

Pixel2 == <<11, 21, 31, 41>>

\* 2^16 and 2^30 as u32 fields
Wide16 == <<0, 0, 1, 0>>

Wide30 == <<0, 0, 0, 64>>

\* One frame as stored: version, width, height, pixel-data length, pixel data.
FrameBytes(width, height, len, pixels) ==
  LE32(SPRITE_VERSION) \o width \o height \o len \o pixels

\* Frames of 1x1, 2x1, 0x1 and 1x0 pixels with the matching length, a 1x1 frame
\* with a wrong length, and frames whose width * height * 4 exceeds 32 bits.
FrameChoices ==
  {FrameBytes(LE32(1), LE32(1), LE32(4), Pixel1),
   FrameBytes(LE32(2), LE32(1), LE32(8), Pixel1 \o Pixel2),
   FrameBytes(LE32(0), LE32(1), LE32(0), <<>>),
   FrameBytes(LE32(1), LE32(0), LE32(0), <<>>),
   FrameBytes(LE32(1), LE32(1), LE32(8), Pixel1 \o Pixel2),
   FrameBytes(Wide16, Wide16, LE32(0), <<>>),
   FrameBytes(Wide30, LE32(1), LE32(0), <<>>),
   FrameBytes(Wide16, LE32(2), LE32(524288), Pixel1)}

\* One collision map as stored.
ColliderBytes(width, height, words) ==
  LE32(SPRITE_VERSION) \o width \o height \o LE32(0) \o LE32(1) \o LE32(2) \o LE32(3)
    \o words

ColliderChoices ==
  {ColliderBytes(LE32(1), LE32(1), LE32(7)),
   ColliderBytes(LE32(2), LE32(1), LE32(0) \o LE32(256)),
   ColliderBytes(LE32(0), LE32(0), <<>>),
   ColliderBytes(Wide16, Wide16, <<>>)}

RECURSIVE Concat(_)
Concat(ss) == IF ss = <<>> THEN <<>> ELSE Head(ss) \o Concat(Tail(ss))

Repeat(n, x) == [j \in 1..n |-> x]

\* A populated sprite slot as the container stores it.
SpriteRecord(name, frames, per_frame, collider) ==
  LE32(1) \o PascalString(name) \o LE32(SPRITE_VERSION) \o LE32(5) \o LE32(6)
    \o LE32(Len(frames)) \o Concat(frames)
    \o (IF frames = <<>> THEN <<>>
        ELSE LE32(per_frame)
               \o Concat(Repeat(IF per_frame # 0 THEN Len(frames) ELSE 1, collider)))

SpriteRecords ==
  {LE32(0)} \cup
  {SpriteRecord(<<115>>, frames, per_frame, collider) :
     frames \in SeqsUpTo(FrameChoices, MaxFrames), per_frame \in {0, 1},
     collider \in ColliderChoices}

\* Records of 1x1 frames, also cut short at any byte.
PlainSpriteRecords ==
  {SpriteRecord(<<115, 112>>, frames, per_frame,
                ColliderBytes(LE32(1), LE32(1), LE32(7))) :
     frames \in SeqsUpTo({FrameBytes(LE32(1), LE32(1), LE32(4), Pixel1)}, MaxFrames),
     per_frame \in {0, 1}}

SprInit ==
  /\ spr \in {SprStart(data, checks) :
                data \in SpriteRecords \cup Prefixes(PlainSpriteRecords),
                checks \in BOOLEAN}
  /\ dec = Idle /\ snd = Idle /\ run = Idle /\ rt = Idle

SpritePresence ==
  /\ spr.pc = "presence"
  /\ spr' = SprReadPresence(spr)
  /\ UNCHANGED <<dec, snd, run, rt>>

SpriteName ==
  /\ spr.pc = "name"
  /\ spr' = SprReadName(spr)
  /\ UNCHANGED <<dec, snd, run, rt>>

SpriteHeader ==
  /\ spr.pc = "header"
  /\ spr' = SprReadHeader(spr)
  /\ UNCHANGED <<dec, snd, run, rt>>

SpriteFrame ==
  /\ spr.pc = "frame"
  /\ spr' = SprReadFrame(spr)
  /\ UNCHANGED <<dec, snd, run, rt>>

SpriteColliderFlag ==
  /\ spr.pc = "collider_flag"
  /\ spr' = SprReadColliderFlag(spr)
  /\ UNCHANGED <<dec, snd, run, rt>>

SpriteCollision ==
  /\ spr.pc = "collider"
  /\ spr' = SprReadCollision(spr)
  /\ UNCHANGED <<dec, snd, run, rt>>

SprNext ==
  \/ SpritePresence \/ SpriteName \/ SpriteHeader \/ SpriteFrame
  \/ SpriteColliderFlag \/ SpriteCollision

SpecSprite == SprInit /\ [][SprNext]_vars

\* ------------------------------------------------------------------------
\* Claims about the sprite decoder
\* ------------------------------------------------------------------------

SprRunning == spr.pc # "idle"

SprDecoded == spr.pc = "done" /\ spr.status = "some"

\* C3: the first frame establishes the size, whatever it is: every frame the
\* decoder has accepted declares the first frame's width and height, and a
\* decoded sprite with frames reports that size.
C3_FramesShareFirstSize ==
  SprRunning =>
    /\ \A j \in 1..Len(spr.frame_log) :
         /\ spr.frame_log[j].width = spr.frame_log[1].width
         /\ spr.frame_log[j].height = spr.frame_log[1].height
    /\ (SprDecoded /\ spr.frame_log # <<>>) =>
         /\ spr.width = spr.frame_log[1].width
         /\ spr.height = spr.frame_log[1].height

\* C6: every accepted frame declares exactly width * height * 4 bytes of pixel
\* data, and its buffer is exactly that long.
C6_AcceptedLengthIsExact ==
  SprRunning =>
    \A j \in 1..Len(spr.frame_log) :
      LET exact == MulExact(MulExact(spr.frame_log[j].width, spr.frame_log[j].height),
                            Four32)
      IN  /\ SameNumber(spr.frame_log[j].len, exact)
          /\ SameNumber(LE32(Len(spr.frames[j])), exact)

\* C9: a decoded sprite with frame_count 0 has no frames, no colliders and the
\* flag false; otherwise it has frame_count frames and frame_count colliders
\* or one, by the flag; every mask has width * height entries, each 0 or 1.
C9_SpriteShape ==
  SprDecoded =>
    /\ spr.frame_count = 0 =>
         ~spr.has_frames /\ spr.colliders = <<>> /\ ~spr.per_frame_colliders
    /\ spr.frame_count # 0 =>
         /\ spr.has_frames /\ Len(spr.frames) = spr.frame_count
         /\ Len(spr.colliders) = (IF spr.per_frame_colliders THEN spr.frame_count ELSE 1)
    /\ \A j \in 1..Len(spr.colliders) :
         /\ SameNumber(LE32(Len(spr.colliders[j].data)),
                       MulExact(spr.colliders[j].width, spr.colliders[j].height))
         /\ \A e \in 1..Len(spr.colliders[j].data) : spr.colliders[j].data[e] \in {0, 1}


\* ------------------------------------------------------------------------
\* Specification of the extraction driver: the same file read with the verbose
\* flag set and unset, the two runs stepping together
\* ------------------------------------------------------------------------

MaxSounds == 2

MaxSprites == 2

\* A compressed chunk behind its length prefix, pad bytes after the stream's end.
Slot(record, pad) ==
  LE32(1 + Len(record) + pad) \o <<Len(record)>> \o record \o Fill(pad, 85)

\* A chunk whose stream is cut short.
BadSlot == LE32(3) \o <<9, 1, 2>>

SoundSlots ==
  {Slot(LE32(0), 1), BadSlot,
   Slot(SoundRecord(<<97>>, 1, <<46, 119>>, <<>>, NoData, F64One, F64MinusHalf, 2), 1),
   Slot(SoundRecord(<<98>>, 3, <<>>, <<120>>, NoData, F64Zero, F64MinusHalf, 0), 0)}

SpriteSlots ==
  {Slot(LE32(0), 2),
   Slot(SpriteRecord(<<116>>, <<FrameBytes(LE32(1), LE32(1), LE32(4), Pixel1)>>, 0,
                     ColliderBytes(LE32(1), LE32(1), LE32(7))), 1),
   Slot(SpriteRecord(<<117>>, <<FrameBytes(Wide16, Wide16, LE32(0), <<>>)>>, 1,
                     ColliderBytes(LE32(0), LE32(0), <<>>)), 0)}

DllNames == {<<>>, <<68, 76>>}

\* Magic, version block, the settings chunk, the DLL name and an empty payload.
DrvPrefix(dll_name) ==
  LE32(GM80_MAGIC) \o Fill(12, 0) \o Slot(<<>>, 1) \o PascalString(dll_name) \o LE32(0)

\* A file from the magic on: an empty encrypted region behind the identity
\* table, no garbage words, empty Extensions, Triggers and Constants.
DrvExe(dll_name, sounds, sprites) ==
  DrvPrefix(dll_name) \o DecSection(0, 0, AffineTable(1, 0), 0, <<>>)
    \o LE32(0) \o Fill(24, 204)
    \o LE32(700) \o LE32(0) \o LE32(800) \o LE32(0) \o LE32(800) \o LE32(0)
    \o LE32(800) \o LE32(Len(sounds)) \o Concat(sounds)
    \o LE32(800) \o LE32(Len(sprites)) \o Concat(sprites)

\* Bytes kept of a file that ends early: every length into the DLL payload's
\* prefix, and files that lose their last bytes.
DrvKeep == 0..Len(DrvPrefix(<<68, 76>>))

DrvDrop == {1, 20}

DrvExes ==
  {DrvExe(<<68, 76>>, sounds, sprites) :
     sounds \in SeqsUpTo(SoundSlots, MaxSounds),
     sprites \in SeqsUpTo(SpriteSlots, MaxSprites)}

DrvShortExes ==
  {SubSeq(DrvExe(dll_name, <<>>, <<>>), 1, keep) : dll_name \in DllNames, keep \in DrvKeep}
    \cup {DropLast(DrvExe(<<68>>, sounds, sprites), drop) :
            sounds \in SeqsOf(SoundSlots, 1), sprites \in SeqsOf(SpriteSlots, 1),
            drop \in DrvDrop}
    \cup {<<1>> \o Tail(DrvExe(<<>>, <<>>, <<>>))}

\* A file that ends 100 bytes into the swap table.
CutTableExe == SubSeq(DrvExe(<<>>, <<>>, <<>>), 1, Len(DrvPrefix(<<>>)) + 8 + 100)

\* A file whose region declares 5 bytes and ends after 2 of them.
CutRegionExe == DrvPrefix(<<>>) \o DecSection(0, 0, AffineTable(1, 0), 5, <<1, 200>>)

\* A sprite whose only frame declares 2x1 pixels, 8 bytes, in a chunk that ends
\* after the first pixel.
CutPixelsSlot ==
  Slot(LE32(1) \o PascalString(<<118>>) \o LE32(SPRITE_VERSION) \o LE32(5) \o LE32(6)
         \o LE32(1) \o FrameBytes(LE32(2), LE32(1), LE32(8), Pixel1), 0)

DrvCutExes == {CutTableExe, CutRegionExe, DrvExe(<<>>, <<>>, <<CutPixelsSlot>>)}

DrvFiles ==
  {<<MZ, exe>> : exe \in DrvExes \cup DrvShortExes \cup DrvCutExes}
    \cup {<<head, DrvExe(<<>>, <<>>, <<>>)>> : head \in {<<>>, <<77>>, <<80, 75>>}}

DrvInit ==
  /\ \E file \in DrvFiles, checks \in BOOLEAN :
       run = [verbose \in BOOLEAN |-> DrvStart(file[1], file[2], verbose, checks)]
  /\ dec = Idle /\ snd = Idle /\ spr = Idle /\ rt = Idle

\* Some run stands at pc.
DrvAt(pc) == pc \in {run[verbose].pc : verbose \in BOOLEAN}

\* Each action is one step of the driver, taken by each of the two runs that
\* stands at it.
Header ==
  /\ DrvAt("header")
  /\ run' = [verbose \in BOOLEAN |->
               IF run[verbose].pc = "header" THEN DrvHeader(run[verbose]) ELSE run[verbose]]
  /\ UNCHANGED <<dec, snd, spr, rt>>

Magic ==
  /\ DrvAt("magic")
  /\ run' = [verbose \in BOOLEAN |->
               IF run[verbose].pc = "magic" THEN DrvMagic(run[verbose]) ELSE run[verbose]]
  /\ UNCHANGED <<dec, snd, spr, rt>>

Settings ==
  /\ DrvAt("settings")
  /\ run' = [verbose \in BOOLEAN |->
               IF run[verbose].pc = "settings" THEN DrvSettings(run[verbose]) ELSE run[verbose]]
  /\ UNCHANGED <<dec, snd, spr, rt>>

DllName ==
  /\ DrvAt("dll_name")
  /\ run' = [verbose \in BOOLEAN |->
               IF run[verbose].pc = "dll_name" THEN DrvDllName(run[verbose]) ELSE run[verbose]]
  /\ UNCHANGED <<dec, snd, spr, rt>>

DllData ==
  /\ DrvAt("dll_data")
  /\ run' = [verbose \in BOOLEAN |->
               IF run[verbose].pc = "dll_data" THEN DrvDllData(run[verbose]) ELSE run[verbose]]
  /\ UNCHANGED <<dec, snd, spr, rt>>

Decryption ==
  /\ DrvAt("decrypt")
  /\ run' = [verbose \in BOOLEAN |->
               IF run[verbose].pc = "decrypt" THEN DrvDecrypt(run[verbose]) ELSE run[verbose]]
  /\ UNCHANGED <<dec, snd, spr, rt>>

Garbage ==
  /\ DrvAt("garbage")
  /\ run' = [verbose \in BOOLEAN |->
               IF run[verbose].pc = "garbage" THEN DrvGarbage(run[verbose]) ELSE run[verbose]]
  /\ UNCHANGED <<dec, snd, spr, rt>>

Extensions ==
  /\ DrvAt("extensions")
  /\ run' = [verbose \in BOOLEAN |->
               IF run[verbose].pc = "extensions" THEN DrvExtensions(run[verbose]) ELSE run[verbose]]
  /\ UNCHANGED <<dec, snd, spr, rt>>

Triggers ==
  /\ DrvAt("triggers")
  /\ run' = [verbose \in BOOLEAN |->
               IF run[verbose].pc = "triggers" THEN DrvTriggers(run[verbose]) ELSE run[verbose]]
  /\ UNCHANGED <<dec, snd, spr, rt>>

Constants ==
  /\ DrvAt("constants")
  /\ run' = [verbose \in BOOLEAN |->
               IF run[verbose].pc = "constants" THEN DrvConstants(run[verbose]) ELSE run[verbose]]
  /\ UNCHANGED <<dec, snd, spr, rt>>

Sounds ==
  /\ DrvAt("sounds")
  /\ run' = [verbose \in BOOLEAN |->
               IF run[verbose].pc = "sounds" THEN DrvSounds(run[verbose]) ELSE run[verbose]]
  /\ UNCHANGED <<dec, snd, spr, rt>>

SoundSlot ==
  /\ DrvAt("sound_slot")
  /\ run' = [verbose \in BOOLEAN |->
               IF run[verbose].pc = "sound_slot" THEN DrvSoundSlot(run[verbose]) ELSE run[verbose]]
  /\ UNCHANGED <<dec, snd, spr, rt>>

Sprites ==
  /\ DrvAt("sprites")
  /\ run' = [verbose \in BOOLEAN |->
               IF run[verbose].pc = "sprites" THEN DrvSprites(run[verbose]) ELSE run[verbose]]
  /\ UNCHANGED <<dec, snd, spr, rt>>

SpriteSlot ==
  /\ DrvAt("sprite_slot")
  /\ run' = [verbose \in BOOLEAN |->
               IF run[verbose].pc = "sprite_slot" THEN DrvSpriteSlot(run[verbose]) ELSE run[verbose]]
  /\ UNCHANGED <<dec, snd, spr, rt>>

DrvNext ==
  \/ Header \/ Magic \/ Settings \/ DllName \/ DllData \/ Decryption \/ Garbage
  \/ Extensions \/ Triggers \/ Constants \/ Sounds \/ SoundSlot \/ Sprites \/ SpriteSlot

SpecDriver == DrvInit /\ [][DrvNext]_vars


\* ------------------------------------------------------------------------
\* Claims about the extraction driver
\* ------------------------------------------------------------------------

\* C7: the verbose flag never affects the outcome: on the same file the two runs
\* stand at the same step with the same result, the same cursor position after
\* every step (after the DLL-name step in particular), and the same buffer.
C7_VerboseNeverAffectsRun ==
  /\ run[TRUE].pc = run[FALSE].pc
  /\ run[TRUE].status = run[FALSE].status
  /\ run[TRUE].position = run[FALSE].position
  /\ run[TRUE].exe = run[FALSE].exe

\* Where slot k of a section starts (k counted from 0), by the declared lengths in
\* the file alone: the section's first slot starts at start.
RECURSIVE SlotAt(_, _, _)
SlotAt(exe, start, k) ==
  IF k = 0 THEN start
  ELSE LET p == SlotAt(exe, start, k - 1)
       IN  p + 4 + U32Val(exe, GM80_MAGIC_POS, p)

\* The decompressed chunk of slot k.
SlotChunk(exe, start, k) ==
  LET p == SlotAt(exe, start, k)
  IN  inflate(exe, GM80_MAGIC_POS, p + 4, U32Val(exe, GM80_MAGIC_POS, p)).buf

SlotPresent(exe, start, k) == U32Val(SlotChunk(exe, start, k), 0, 0) # 0

SoundOfSlot(r, k) ==
  SoundAsset(GMSound_from_raw(SndStart(SlotChunk(r.exe, r.sounds_at, k))))

SpriteOfSlot(r, k) ==
  SpriteAsset(GMSprite_from_raw(SprStart(SlotChunk(r.exe, r.sprites_at, k),
                                         r.overflow_checks)))

\* The Sounds section has been read to its end, and the Sprites section.
SoundsRead(r) == r.pc \in {"sprites", "sprite_slot", "done"}

SpritesRead(r) == r.pc = "done"

\* C8: a section read to its end holds exactly count entries, entry k the decoding
\* of slot k, absent exactly when the slot's presence flag is 0; and before and
\* after every slot the cursor stands 4 plus the declared chunk length past the
\* slot before, whatever the chunk inflated to.
C8_SlotsKeptInOrder ==
  \A verbose \in BOOLEAN :
    LET r == run[verbose]
    IN  /\ r.pc = "sound_slot" => r.position = SlotAt(r.exe, r.sounds_at, r.k)
        /\ r.pc = "sprite_slot" => r.position = SlotAt(r.exe, r.sprites_at, r.k)
        /\ r.pc = "sprites" => r.position = SlotAt(r.exe, r.sounds_at, r.sound_count)
        /\ r.pc = "done" => r.position = SlotAt(r.exe, r.sprites_at, r.sprite_count)
        /\ SoundsRead(r) =>
             /\ Len(r.sounds) = r.sound_count
             /\ \A k \in 1..r.sound_count :
                  /\ r.sounds[k] = SoundOfSlot(r, k - 1)
                  /\ r.sounds[k].some <=> SlotPresent(r.exe, r.sounds_at, k - 1)
        /\ SpritesRead(r) =>
             /\ Len(r.sprites) = r.sprite_count
             /\ \A k \in 1..r.sprite_count :
                  /\ r.sprites[k] = SpriteOfSlot(r, k - 1)
                  /\ r.sprites[k].some <=> SlotPresent(r.exe, r.sprites_at, k - 1)

\* A run read to the end: an empty sound slot whose chunk is longer than its
\* stream, then a populated one; a populated sprite slot, then an empty one.
C8_Witness ==
  \E verbose \in BOOLEAN :
    LET r == run[verbose]
    IN  /\ r.pc = "done"
        /\ r.sound_count = 2 /\ ~r.sounds[1].some /\ r.sounds[2].some
        /\ U32Val(r.exe, GM80_MAGIC_POS, r.sounds_at)
             > 1 + Len(SlotChunk(r.exe, r.sounds_at, 0))
        /\ r.sprite_count = 2 /\ r.sprites[1].some /\ ~r.sprites[2].some

\* ------------------------------------------------------------------------
\* asset::Sound: the project-file record, written and read back
\* ------------------------------------------------------------------------

VERSION == 800

\* A String is its sequence of code points; the bytes of a String are its UTF-8
\* encoding (code points below 2048 here).
RECURSIVE to_utf8(_)
to_utf8(text) ==
  IF text = <<>> THEN <<>>
  ELSE IF text[1] < 128 THEN <<text[1]>> \o to_utf8(Tail(text))
  ELSE <<192 + (text[1] \div 64), 128 + (text[1] % 64)>> \o to_utf8(Tail(text))

\* The byteio writers: the bytes put to the writer and the count returned.
write_u32_le(n) == [bytes |-> LE32(n), count |-> 4]

write_f64_le(x) == [bytes |-> x, count |-> 8]

write_pas_string(text) ==
  [bytes |-> LE32(Len(to_utf8(text))) \o to_utf8(text), count |-> 4 + Len(to_utf8(text))]

\* io::Write::write: one attempt to write, which takes the first bytes of buf, as
\* many as the writer accepts at once, and returns how many it took.
Write_write(buf, accepts) ==
  LET n == IF Len(buf) < accepts THEN Len(buf) ELSE accepts
  IN  [bytes |-> SubSeq(buf, 1, n), count |-> n]

\* result += writer.write..(..)?
Written(w, piece) == [out |-> w.out \o piece.bytes, result |-> w.result + piece.count]

\* self.kind as u32
KindAsU32(kind) ==
  CASE kind = "Normal" -> 0
    [] kind = "BackgroundMusic" -> 1
    [] kind = "ThreeDimensional" -> 2
    [] kind = "Multimedia" -> 3

\* impl From<u32> for SoundKind
SoundKind_from(n) ==
  CASE n = 0 -> "Normal"
    [] n = 1 -> "BackgroundMusic"
    [] n = 2 -> "ThreeDimensional"
    [] n = 3 -> "Multimedia"
    [] OTHER -> "Normal"

Flag(b, n) == IF b THEN n ELSE 0

EffectsOf(fx) ==
  Flag(fx.chorus, 1) + Flag(fx.echo, 2) + Flag(fx.flanger, 4) + Flag(fx.gargle, 8)
    + Flag(fx.reverb, 16)

\* (effects & bit) != 0
BitSet(effects, bit) == (effects \div bit) % 2 = 1

SoundFX(effects) ==
  [chorus |-> BitSet(effects, 1), echo |-> BitSet(effects, 2),
   flanger |-> BitSet(effects, 4), gargle |-> BitSet(effects, 8),
   reverb |-> BitSet(effects, 16)]

\* The data field as written: the flag, the length, and one write of the bytes.
WrittenData(w, data, accepts) ==
  IF data.some
  THEN Written(Written(Written(w, write_u32_le(1)), write_u32_le(Len(data.bytes))),
               Write_write(data.bytes, accepts))
  ELSE Written(w, write_u32_le(0))

\* Sound::serialize to a writer that accepts so many bytes at once: what the
\* writer holds afterwards and the count returned.
Sound_serialize(s, accepts) ==
  LET w1 == Written([out |-> <<>>, result |-> 0], write_pas_string(s.name))
      w2 == Written(w1, write_u32_le(VERSION))
      w3 == Written(w2, write_u32_le(KindAsU32(s.kind)))
      w4 == Written(w3, write_pas_string(s.extension))
      w5 == Written(w4, write_pas_string(s.source))
      w6 == WrittenData(w5, s.data, accepts)
      w7 == Written(w6, write_u32_le(EffectsOf(s.fx)))
      w8 == Written(w7, write_f64_le(s.volume))
      w9 == Written(w8, write_f64_le(s.pan))
  IN  Written(w9, write_u32_le(Flag(s.preload, 1)))

\* The byteio readers at position p of the reader's buffer: ok, the value, and
\* the position afterwards.
read_u32_le(buf, p) ==
  IF U32Ok(buf, 0, p) THEN [ok |-> TRUE, value |-> U32Val(buf, 0, p), position |-> p + 4]
  ELSE [ok |-> FALSE, value |-> 0, position |-> p]

read_f64_le(buf, p) ==
  IF Avail(buf, 0, p, 8) = 8
  THEN [ok |-> TRUE, value |-> Slice(buf, 0, p, 8), position |-> p + 8]
  ELSE [ok |-> FALSE, value |-> <<>>, position |-> p]

read_pas_string(buf, p) ==
  LET len == read_u32_le(buf, p)
  IN  IF len.ok /\ Avail(buf, 0, len.position, len.value) = len.value
      THEN [ok |-> TRUE, value |-> from_utf8_lossy(Slice(buf, 0, len.position, len.value)),
            position |-> len.position + len.value]
      ELSE [ok |-> FALSE, value |-> <<>>, position |-> p]

assert_ver(got, expected) == got = expected

DeserializeErr(why) == [status |-> why]

\* Sound::deserialize: status "ok" and the Sound, or the error, or "panic" when
\* the data's range lies outside the buffer.
Sound_deserialize(bytes, strict) ==
  LET name == read_pas_string(bytes, 0)
      version == read_u32_le(bytes, name.position)
      kind == read_u32_le(bytes, name.position + 4)
      extension == read_pas_string(bytes, kind.position)
      source == read_pas_string(bytes, extension.position)
      has_data == read_u32_le(bytes, source.position)
      len == read_u32_le(bytes, has_data.position)
      pos == len.position
      effects == read_u32_le(bytes, IF has_data.value # 0 THEN pos + len.value
                                    ELSE has_data.position)
      volume == read_f64_le(bytes, effects.position)
      pan == read_f64_le(bytes, volume.position)
      preload == read_u32_le(bytes, pan.position)
  IN  IF ~name.ok THEN DeserializeErr("IO")
      ELSE IF strict /\ ~version.ok THEN DeserializeErr("IO")
      ELSE IF strict /\ ~assert_ver(version.value, VERSION)
           THEN DeserializeErr("VersionError")
      ELSE IF ~kind.ok \/ ~extension.ok \/ ~source.ok \/ ~has_data.ok
           THEN DeserializeErr("IO")
      ELSE IF has_data.value # 0 /\ ~len.ok THEN DeserializeErr("IO")
      ELSE IF has_data.value # 0 /\ pos + len.value > Len(bytes)
           THEN DeserializeErr("panic")
      ELSE IF ~effects.ok \/ ~volume.ok \/ ~pan.ok \/ ~preload.ok
           THEN DeserializeErr("IO")
      ELSE [status |-> "ok",
            sound |-> [name |-> name.value, source |-> source.value,
                       extension |-> extension.value,
                       kind |-> SoundKind_from(kind.value),
                       data |-> IF has_data.value # 0
                                THEN [some |-> TRUE, bytes |-> Slice(bytes, 0, pos, len.value)]
                                ELSE NoData,
                       volume |-> volume.value, pan |-> pan.value,
                       preload |-> preload.value # 0, fx |-> SoundFX(effects.value)]]

\* ------------------------------------------------------------------------
\* Specification of the round trip: a Sound is serialized to a writer and the
\* bytes the writer holds are deserialized
\* ------------------------------------------------------------------------

MaxData == 2

\* Names with and without characters outside ASCII.
Texts == {<<>>, <<97, 233>>}

SoundKinds == {"Normal", "BackgroundMusic", "ThreeDimensional", "Multimedia"}

DataOf(n) == [some |-> TRUE, bytes |-> [j \in 1..n |-> 6 + j]]

Effects == {0, 1, 18, 31}

SoundValues ==
  [name : Texts, source : Texts, extension : {<<>>, <<46, 119>>}, kind : SoundKinds,
   data : {NoData} \cup {DataOf(n) : n \in 0..MaxData},
   volume : {F64Zero, F64One}, pan : {F64MinusHalf}, preload : BOOLEAN,
   fx : {SoundFX(e) : e \in Effects}]

\* accepts: the bytes the writer takes in one call of write; MaxData takes all.
RtInit ==
  /\ \E s \in SoundValues, strict \in BOOLEAN, accepts \in 0..MaxData :
       rt = [s |-> s, strict |-> strict, accepts |-> accepts, pc |-> "serialize",
             out |-> <<>>, result |-> 0, status |-> "running", sound |-> s]
  /\ dec = Idle /\ snd = Idle /\ spr = Idle /\ run = Idle

Serialize ==
  /\ rt.pc = "serialize"
  /\ LET w == Sound_serialize(rt.s, rt.accepts)
     IN  rt' = [rt EXCEPT !.out = w.out, !.result = w.result, !.pc = "deserialize"]
  /\ UNCHANGED <<dec, snd, spr, run>>

Deserialize ==
  /\ rt.pc = "deserialize"
  /\ LET d == Sound_deserialize(rt.out, rt.strict)
     IN  rt' = [rt EXCEPT !.status = d.status, !.pc = "done",
                          !.sound = IF d.status = "ok" THEN d.sound ELSE rt.sound]
  /\ UNCHANGED <<dec, snd, spr, run>>

RtNext == Serialize \/ Deserialize

SpecRoundTrip == RtInit /\ [][RtNext]_vars

\* C10: a Sound serialized and read back, strictly or not, is the Sound that was
\* written, field for field, and serialize returns the number of bytes written.
C10_RoundTrip ==
  /\ rt.pc \in {"deserialize", "done"} => rt.result = Len(rt.out)
  /\ rt.pc = "done" => rt.status = "ok" /\ rt.sound = rt.s

\* ------------------------------------------------------------------------
\* Claims about truncated input
\* ------------------------------------------------------------------------

\* The run has panicked before the Sounds section, and after it.
PanickedEarly(r) == r.status = "panic" /\ r.sounds_at = 0

PanickedInSprites(r) == r.status = "panic" /\ r.sprites_at # 0

\* Fewer than 256 bytes remain at the cursor, where the swap table is expected.
TableCutShort(r) == Avail(r.exe, GM80_MAGIC_POS, r.position, TABLE_SIZE) < TABLE_SIZE

\* The cursor stands behind the asset-data length, and pos + len exceeds the
\* buffer's length.
RegionCutShort(r) ==
  /\ U32Ok(r.exe, GM80_MAGIC_POS, r.position - 4)
  /\ r.position + U32Val(r.exe, GM80_MAGIC_POS, r.position - 4)
       > BufLen(r.exe, GM80_MAGIC_POS)

\* The decoder of the sprite slot the loop stands at, where it stopped.
SpriteStopped(r) ==
  GMSprite_from_raw(SprStart(SlotChunk(r.exe, r.sprites_at, r.k), r.overflow_checks))

\* The frame at the decoder's cursor declares pixel data that ends past the end
\* of the chunk, its width * height * 4 within 32 bits.
PixelsCutShort(s) ==
  /\ s.pc = "failed" /\ s.status = "panic"
  /\ ~mul_overflows(s.width, s.height)
  /\ ~mul_overflows(wrapping_mul(s.width, s.height), Four32)
  /\ ~CountFits(wrapping_mul(s.width, s.height), 4, BufLen(s.data, 0) - (s.position + 16))

\* C12: a truncated input makes the driver return an error value, it never makes
\* it panic: not where fewer than 256 bytes remain for the swap table, not where
\* the declared length of the asset data makes pos + len exceed the buffer's
\* length, not where the pixel data of a sprite frame ends past its chunk.
C12_TruncatedInputReturnsError ==
  \A verbose \in BOOLEAN :
    LET r == run[verbose]
    IN  /\ ~(PanickedEarly(r) /\ TableCutShort(r))
        /\ ~(PanickedEarly(r) /\ RegionCutShort(r))
        /\ ~(PanickedInSprites(r) /\ PixelsCutShort(SpriteStopped(r)))
====
